---- MODULE Spec2Model ----
(***************************************************************************)
(* A model of docs/original-src-c/decode.py, the dtextc.dat text extractor *)
(* of zork-web: the cursor readers, the metadata walk (skip_metadata), the *)
(* positional XOR codec (decrypt_text) and the message segmenter           *)
(* (extract_messages).                                                     *)
(*                                                                         *)
(* Bytes are integers 0..255, a bytes object is a sequence of them, a str  *)
(* is a sequence of code points, None is the empty tuple and an int v that *)
(* may be None is the one-element tuple <<v>>.                             *)
(***************************************************************************)
EXTENDS Integers, Sequences, FiniteSets

VARIABLES
    data,               \* the bytes of the stream f (decrypt_text: its argument data)
    pos,                \* the cursor of f (f.tell())
    stage,              \* the function that is running, or how the run ended
    pc,                 \* skip_metadata: index in Program of the next statement
    exc,                \* the exception raised ("" while none is)
    locals,             \* skip_metadata: its local integers (vmaj .. mlnt)
    started_at,         \* history: the cursor at which each statement of Program began
    max_count,          \* read_partial_ints: its argument
    values,             \* read_partial_ints: the dict it builds
    text_start_pos,     \* skip_metadata: first component of its result
    message_indices,    \* skip_metadata: second component of its result
    encrypted_data,     \* extract_messages: f.read() after the seek
    start_offset,       \* decrypt_text: its argument
    decrypted_data,     \* the result of decrypt_text
    restored,           \* the result of a second decrypt_text over decrypted_data
    messages,           \* extract_messages: first component of its result
    quality             \* extract_messages: second component of its result

vars == <<data, pos, stage, pc, exc, locals, started_at, max_count, values,
          text_start_pos, message_indices, encrypted_data, start_offset,
          decrypted_data, restored, messages, quality>>

----------------------------------------------------------------------------
(* Bounds of the model.                                                    *)

MaxCodecLen == 2        \* decrypt_text alone: longest input
MaxCounter == 260       \* decrypt_text alone: largest start counter
MaxShort == 4           \* segmenter: longest text over TextBytes
MaxLong == 12           \* segmenter: longest text over LongBytes
MaxCount == 2           \* pipeline: largest section count of a generated file
MaxStream == 10         \* read_partial_ints alone: longest stream

----------------------------------------------------------------------------
(* Values.                                                                 *)

None == <<>>
Some(v) == <<v>>

Min(a, b) == IF a < b THEN a ELSE b

\* a ^ b on non-negative integers
RECURSIVE xor(_, _)
xor(a, b) ==
    IF a = 0 THEN b
    ELSE IF b = 0 THEN a
    ELSE (((a % 2) + (b % 2)) % 2) + 2 * xor(a \div 2, b \div 2)

\* every sequence over S of length at most n
SeqsUpTo(S, n) == UNION {[1..k -> S] : k \in 0..n}

----------------------------------------------------------------------------
(* The stream: f.read(n), f.read(), and the readers built on them.         *)

File == [data |-> data, pos |-> pos]

\* f.read(n): up to n bytes from the cursor, which moves past what was read
read(f, n) ==
    LET end == Min(f.pos + n, Len(f.data))
    IN  [bytes |-> SubSeq(f.data, f.pos + 1, end), pos |-> end]

\* f.read(): everything from the cursor to the end
read_all(f) ==
    [bytes |-> SubSeq(f.data, f.pos + 1, Len(f.data)),
     pos |-> IF f.pos > Len(f.data) THEN f.pos ELSE Len(f.data)]

\* struct.unpack('>h', b)[0]
unpack_h(b) ==
    LET u == b[1] * 256 + b[2]
    IN  IF u >= 32768 THEN u - 65536 ELSE u

read_int16_be(f) ==
    LET r == read(f, 2)
    IN  [val |-> IF Len(r.bytes) < 2 THEN None ELSE Some(unpack_h(r.bytes)),
         pos |-> r.pos]

RECURSIVE multiple_ints_loop(_, _, _)
multiple_ints_loop(f, left, vals) ==
    IF left <= 0 THEN [values |-> vals, pos |-> f.pos]
    ELSE LET r == read_int16_be(f)
         IN  IF r.val = None THEN [values |-> vals, pos |-> r.pos]
             ELSE multiple_ints_loop([f EXCEPT !.pos = r.pos], left - 1,
                                     Append(vals, r.val[1]))

\* the loop bound off by one: range(count + 1)
read_multiple_ints_one_more(f, count) ==
    multiple_ints_loop(f, count + 1, <<>>)

read_multiple_ints(f, count) == multiple_ints_loop(f, count, <<>>)

RECURSIVE flags_loop(_, _, _)
flags_loop(f, left, flags) ==
    IF left <= 0 THEN [values |-> flags, pos |-> f.pos]
    ELSE LET r == read(f, 1)
         IN  IF r.bytes = <<>> THEN [values |-> flags, pos |-> r.pos]
             ELSE flags_loop([f EXCEPT !.pos = r.pos], left - 1,
                             Append(flags, r.bytes[1] # 0))

read_flags(f, count) == flags_loop(f, count, <<>>)

\* values[index] = value
dict_set(d, index, value) ==
    [i \in DOMAIN d \cup {index} |-> IF i = index THEN value ELSE d[i]]

EmptyDict == [i \in {} |-> 0]

\* a repeated index keeps its first value: values.setdefault(index, value)
read_partial_ints_iter_keep_first(f, maxc, vals) ==
    LET byte == read(f, 1)
        word == read_int16_be(f)
        stop == IF maxc < 255
                THEN byte.bytes = <<>> \/ byte.bytes[1] = 255
                ELSE word.val = None \/ word.val[1] = -1
        index == IF maxc < 255 THEN byte.bytes[1] ELSE word.val[1]
        after == IF maxc < 255 THEN byte.pos ELSE word.pos
        value == read_int16_be([f EXCEPT !.pos = after])
    IN  IF stop THEN [brk |-> TRUE, pos |-> after, values |-> vals]
        ELSE [brk |-> FALSE, pos |-> value.pos,
              values |-> IF value.val # None /\ index \notin DOMAIN vals
                         THEN dict_set(vals, index, value.val[1])
                         ELSE vals]

\* one pass through the body of the while loop of read_partial_ints
read_partial_ints_iter(f, maxc, vals) ==
    LET byte == read(f, 1)
        word == read_int16_be(f)
        stop == IF maxc < 255
                THEN byte.bytes = <<>> \/ byte.bytes[1] = 255
                ELSE word.val = None \/ word.val[1] = -1
        index == IF maxc < 255 THEN byte.bytes[1] ELSE word.val[1]
        after == IF maxc < 255 THEN byte.pos ELSE word.pos
        value == read_int16_be([f EXCEPT !.pos = after])
    IN  IF stop THEN [brk |-> TRUE, pos |-> after, values |-> vals]
        ELSE [brk |-> FALSE, pos |-> value.pos,
              values |-> IF value.val # None
                         THEN dict_set(vals, index, value.val[1])
                         ELSE vals]

----------------------------------------------------------------------------
(* decrypt_text.                                                           *)

\* b"IanLanceTaylorJr"
zkey == <<73, 97, 110, 76, 97, 110, 99, 101, 84, 97, 121, 108, 111, 114, 74, 114>>

RECURSIVE decrypt_loop(_, _, _)
decrypt_loop(rest, x, decrypted) ==
    IF rest = <<>> THEN decrypted
    ELSE LET key_char == zkey[(x % 16) + 1]
             position_xor == x % 256
             decrypted_byte == xor(xor(Head(rest), key_char), position_xor)
         IN  decrypt_loop(Tail(rest), x + 1, Append(decrypted, decrypted_byte))

\* the position added instead of XORed
decrypt_text_additive(d, start) ==
    [i \in 1..Len(d) |->
        (xor(d[i], zkey[((start + i - 1) % 16) + 1]) + (start + i - 1)) % 256]

\* the counter never incremented (x += 1 missing)
decrypt_text_fixed_counter(d, start) ==
    [i \in 1..Len(d) |-> xor(xor(d[i], zkey[(start % 16) + 1]), start % 256)]

decrypt_text(d, start) == decrypt_loop(d, start, <<>>)

----------------------------------------------------------------------------
(* extract_messages: the quality ratio and the two extraction strategies.  *)

\* the zero byte not counted
counts_as_printable_no_nul(b) == (32 <= b /\ b <= 126) \/ b \in {9, 10, 13}

\* 32 <= b <= 126 or b in (9, 10, 13, 0)
counts_as_printable(b) == (32 <= b /\ b <= 126) \/ b \in {9, 10, 13, 0}

RECURSIVE gcd(_, _)
gcd(a, b) == IF b = 0 THEN a ELSE gcd(b, a % b)

\* the number n / d, as the pair of its lowest terms
ratio(n, d) == <<n \div gcd(n, d), d \div gcd(n, d)>>

Zero == ratio(0, 1)
One == ratio(1, 1)

\* sum(1 for b in decrypted_data if ...)
printable_count(bytes) ==
    Cardinality({i \in 1..Len(bytes) : counts_as_printable(bytes[i])})

\* printable_count / len(decrypted_data) if len(decrypted_data) > 0 else 0
decryption_quality(bytes) ==
    IF Len(bytes) > 0 THEN ratio(printable_count(bytes), Len(bytes)) ELSE Zero

\* bytes.decode('ascii', errors='replace'): a byte above 127 becomes U+FFFD
decode_ascii(bytes) ==
    [i \in 1..Len(bytes) |-> IF bytes[i] >= 128 THEN 65533 ELSE bytes[i]]

\* c.isprintable(), for the code points decode_ascii produces
isprintable(c) == (32 <= c /\ c <= 126) \/ c = 65533

\* c.isprintable() or c in '\n\r\t'
is_text_char(c) == isprintable(c) \/ c \in {10, 13, 9}

\* chunk.find(b'\0'): the 0-based index of the first zero byte, or -1
find_null(chunk) ==
    IF \E i \in 1..Len(chunk) : chunk[i] = 0
    THEN (CHOOSE i \in 1..Len(chunk) :
              chunk[i] = 0 /\ \A j \in 1..(i - 1) : chunk[j] # 0) - 1
    ELSE -1

\* the loop over range(0, len(decrypted_data), 8), from offset i on
RECURSIVE fixed_stride_loop(_, _, _)
fixed_stride_loop(bytes, i, msgs) ==
    IF i >= Len(bytes) THEN msgs
    ELSE LET chunk == SubSeq(bytes, i + 1, Min(i + 8, Len(bytes)))
             null_pos == find_null(chunk)
             cut == IF null_pos # -1 THEN SubSeq(chunk, 1, null_pos) ELSE chunk
             text == decode_ascii(cut)
             keep == Len(cut) > 0 /\ \E k \in 1..Len(text) : is_text_char(text[k])
         IN  fixed_stride_loop(bytes, i + 8,
                               IF keep THEN Append(msgs, text) ELSE msgs)

fixed_stride_messages(bytes) == fixed_stride_loop(bytes, 0, <<>>)

\* sum(...) / len(text) > 0.7
passes_threshold(text) ==
    Cardinality({k \in 1..Len(text) : is_text_char(text[k])}) * 10 > 7 * Len(text)

\* the loop "for byte in decrypted_data" of the second strategy, from index i on
RECURSIVE continuous_loop(_, _, _, _)
continuous_loop(bytes, i, current_string, msgs) ==
    IF i > Len(bytes) THEN msgs
    ELSE LET byte == bytes[i]
             text == decode_ascii(current_string)
         IN  IF byte = 0
             THEN continuous_loop(bytes, i + 1, <<>>,
                      IF Len(current_string) > 2 /\ passes_threshold(text)
                      THEN Append(msgs, text) ELSE msgs)
             ELSE IF (32 <= byte /\ byte <= 126) \/ byte \in {9, 10, 13}
             THEN continuous_loop(bytes, i + 1, Append(current_string, byte), msgs)
             ELSE continuous_loop(bytes, i + 1, <<>>,
                      IF Len(current_string) > 2
                      THEN Append(msgs, text) ELSE msgs)

\* the run still open at the end of the input flushed as well
continuous_messages_flush_at_end(bytes) == continuous_loop(bytes \o <<0>>, 1, <<>>, <<>>)

continuous_messages(bytes) == continuous_loop(bytes, 1, <<>>, <<>>)

\* >= in place of >
choose_messages_on_tie(fixed, continuous) ==
    IF Len(continuous) >= Len(fixed) THEN continuous ELSE fixed

\* if len(continuous_messages) > len(messages): messages = continuous_messages
choose_messages(fixed, continuous) ==
    IF Len(continuous) > Len(fixed) THEN continuous ELSE fixed

----------------------------------------------------------------------------
(* skip_metadata as the sequence of its statements.                        *)
(* op: "int" (x = read_int16_be(f)), "version" and "params" (the two       *)
(* prints that format a value read before), "multi", "partial", "flags"    *)
(* (the array reads, var naming the count they are given), "indices"       *)
(* (message_indices = read_multiple_ints(f, mlnt)) and "return".           *)
(* sec: 0 for the header, 1..8 for the section; line: the source line.     *)
(* The prints "Reading {n} ..." format with {} only and cannot raise.      *)

St(op, var, sec, line) == [op |-> op, var |-> var, sec |-> sec, line |-> line]

Program ==
    << St("int", "vmaj", 0, 110),
       St("int", "vmin", 0, 111),
       St("int", "vedit", 0, 112),
       St("version", "vedit", 0, 113),
       St("int", "mxscor", 0, 116),
       St("int", "strbit", 0, 117),
       St("int", "egmxsc", 0, 118),
       St("params", "strbit", 0, 119),
       St("int", "rlnt", 1, 122),
       St("multi", "rlnt", 1, 124),
       St("multi", "rlnt", 1, 125),
       St("multi", "rlnt", 1, 126),
       St("partial", "rlnt", 1, 127),
       St("partial", "rlnt", 1, 128),
       St("multi", "rlnt", 1, 129),
       St("int", "xlnt", 2, 132),
       St("multi", "xlnt", 2, 134),
       St("int", "olnt", 3, 137),
       St("multi", "olnt", 3, 139),
       St("multi", "olnt", 3, 140),
       St("partial", "olnt", 3, 141),
       St("partial", "olnt", 3, 142),
       St("multi", "olnt", 3, 143),
       St("partial", "olnt", 3, 144),
       St("partial", "olnt", 3, 145),
       St("partial", "olnt", 3, 146),
       St("multi", "olnt", 3, 147),
       St("partial", "olnt", 3, 148),
       St("multi", "olnt", 3, 149),
       St("partial", "olnt", 3, 150),
       St("partial", "olnt", 3, 151),
       St("partial", "olnt", 3, 152),
       St("int", "r2lnt", 4, 155),
       St("multi", "r2lnt", 4, 157),
       St("multi", "r2lnt", 4, 158),
       St("int", "clnt", 5, 161),
       St("multi", "clnt", 5, 163),
       St("multi", "clnt", 5, 164),
       St("flags", "clnt", 5, 165),
       St("int", "vlnt", 6, 168),
       St("multi", "vlnt", 6, 170),
       St("partial", "vlnt", 6, 171),
       St("partial", "vlnt", 6, 172),
       St("multi", "vlnt", 6, 173),
       St("multi", "vlnt", 6, 174),
       St("int", "alnt", 7, 177),
       St("multi", "alnt", 7, 179),
       St("partial", "alnt", 7, 180),
       St("partial", "alnt", 7, 181),
       St("multi", "alnt", 7, 182),
       St("multi", "alnt", 7, 183),
       St("multi", "alnt", 7, 184),
       St("partial", "alnt", 7, 185),
       St("int", "mbase", 8, 188),
       St("int", "mlnt", 8, 189),
       St("indices", "mlnt", 8, 191),
       St("return", "mlnt", 8, 194) >>

LocalNames == {Program[i].var : i \in 1..Len(Program)}

\* the stream rewound instead of positioned
seek_rewind(f, offset) == offset - offset

\* f.seek(offset)
seek(f, offset) == offset

----------------------------------------------------------------------------
(* Input files: what the layout walked by skip_metadata looks like on disk. *)

\* struct.pack('>h', v)
pack_h(v) ==
    LET u == IF v < 0 THEN v + 65536 ELSE v
    IN  <<u \div 256, u % 256>>

RECURSIVE Concat(_)
Concat(ss) == IF ss = <<>> THEN <<>> ELSE Head(ss) \o Concat(Tail(ss))

\* version 2.7A, max score 585, strbit 0, endgame max score 100, mbase 0
HeaderValue(var) ==
    CASE var = "vmaj" -> 2 [] var = "vmin" -> 7 [] var = "vedit" -> 65
      [] var = "mxscor" -> 585 [] var = "egmxsc" -> 100 [] OTHER -> 0

\* the bytes statement st reads in a file whose section counts are counts
FieldBytes(st, counts) ==
    LET n == counts[st.sec]
    IN  CASE st.op = "int" ->
                 IF st.sec > 0 /\ st.var # "mbase" THEN pack_h(n)
                 ELSE pack_h(HeaderValue(st.var))
          [] st.op \in {"multi", "indices"} ->
                 Concat([j \in 1..n |-> pack_h(st.line * 10 + j)])
          [] st.op = "partial" ->
                 Concat([j \in 1..n |-> <<j - 1>> \o pack_h(j - st.line)]) \o <<255>>
          [] st.op = "flags" -> [j \in 1..n |-> j % 2]
          [] OTHER -> <<>>

Metadata(counts) == Concat([i \in 1..Len(Program) |-> FieldBytes(Program[i], counts)])

\* "HELLO\0WORLD\0"
HelloWorld == <<72, 69, 76, 76, 79, 0, 87, 79, 82, 76, 68, 0>>
Hello == <<72, 69, 76, 76, 79>>
World == <<87, 79, 82, 76, 68>>

\* a complete file: the metadata, then the text encrypted with counter 0
CompleteFile(counts) == Metadata(counts) \o decrypt_text(HelloWorld, 0)

CountVectors ==
    {[s \in 1..8 |-> n] : n \in 0..MaxCount}
    \cup {[s \in 1..8 |-> IF s = t THEN 1 ELSE 0] : t \in 1..8}

CompleteFiles == {CompleteFile(c) : c \in CountVectors}

\* every complete file, and every complete file cut off at a byte position
InputFiles == UNION {{SubSeq(w, 1, cut) : cut \in 0..Len(w)} : w \in CompleteFiles}

----------------------------------------------------------------------------
(* The pipeline of main: skip_metadata(f), then extract_messages(f, ...).  *)

Unused ==
    /\ max_count = 0
    /\ start_offset = 0
    /\ restored = <<>>

Init ==
    /\ data \in InputFiles
    /\ pos = 0
    /\ stage = "skip_metadata"
    /\ pc = 1
    /\ exc = ""
    /\ locals = [v \in LocalNames |-> None]
    /\ started_at = <<0>>
    /\ values = EmptyDict
    /\ text_start_pos = 0
    /\ message_indices = <<>>
    /\ encrypted_data = <<>>
    /\ decrypted_data = <<>>
    /\ messages = <<>>
    /\ quality = Zero
    /\ Unused

AtOp(ops) == stage = "skip_metadata" /\ Program[pc].op \in ops

\* the walk moves on to the next statement, the cursor at p
Advance(p) ==
    /\ pos' = p
    /\ pc' = pc + 1
    /\ started_at' = Append(started_at, p)
    /\ UNCHANGED <<stage, exc>>

\* the statement raises: skip_metadata is left, main's handler exits
Raise(e) ==
    /\ exc' = e
    /\ stage' = "failed"
    /\ UNCHANGED <<pos, pc, started_at>>

NoResult == UNCHANGED <<data, max_count, text_start_pos, encrypted_data, start_offset,
                        decrypted_data, restored, messages, quality>>

\* x = read_int16_be(f)
ReadInt16 ==
    /\ AtOp({"int"})
    /\ LET r == read_int16_be(File)
       IN  /\ locals' = [locals EXCEPT ![Program[pc].var] = r.val]
           /\ Advance(r.pos)
    /\ UNCHANGED <<values, message_indices>>
    /\ NoResult

\* print(f"Version: {vmaj}.{vmin}{chr(vedit) if vedit < 128 else ''}")
PrintVersion ==
    /\ AtOp({"version"})
    /\ IF locals["vedit"] = None THEN Raise("TypeError")
       ELSE IF locals["vedit"][1] < 0 THEN Raise("ValueError")
       ELSE Advance(pos)
    /\ UNCHANGED <<locals, values, message_indices>>
    /\ NoResult

\* print(f"Max Score: {mxscor}, STRBIT: {strbit} (0x{strbit:04x}), ...")
PrintParams ==
    /\ AtOp({"params"})
    /\ IF locals["strbit"] = None THEN Raise("TypeError") ELSE Advance(pos)
    /\ UNCHANGED <<locals, values, message_indices>>
    /\ NoResult

\* read_multiple_ints(f, n): range(None) raises TypeError
ReadMultipleInts ==
    /\ AtOp({"multi", "indices"})
    /\ LET count == locals[Program[pc].var]
           r == read_multiple_ints(File, count[1])
       IN  IF count = None
           THEN Raise("TypeError") /\ UNCHANGED message_indices
           ELSE /\ Advance(r.pos)
                /\ message_indices' = IF Program[pc].op = "indices" THEN r.values
                                      ELSE message_indices
    /\ UNCHANGED <<locals, values>>
    /\ NoResult

\* read_partial_ints(f, n), one pass of its loop: None < 255 raises TypeError
ReadPartialInts ==
    /\ AtOp({"partial"})
    /\ LET count == locals[Program[pc].var]
           r == read_partial_ints_iter(File, count[1], values)
       IN  IF count = None
           THEN Raise("TypeError") /\ UNCHANGED values
           ELSE IF r.brk
           THEN Advance(r.pos) /\ values' = EmptyDict
           ELSE /\ pos' = r.pos
                /\ values' = r.values
                /\ UNCHANGED <<pc, started_at, stage, exc>>
    /\ UNCHANGED <<locals, message_indices>>
    /\ NoResult

\* read_flags(f, n): range(None) raises TypeError
ReadFlags ==
    /\ AtOp({"flags"})
    /\ LET count == locals[Program[pc].var]
           r == read_flags(File, count[1])
       IN  IF count = None THEN Raise("TypeError") ELSE Advance(r.pos)
    /\ UNCHANGED <<locals, values, message_indices>>
    /\ NoResult

\* text_start_pos = f.tell(); return text_start_pos, message_indices
Return ==
    /\ AtOp({"return"})
    /\ text_start_pos' = pos
    /\ stage' = "extract_messages"
    /\ UNCHANGED <<data, pos, pc, exc, locals, started_at, max_count, values,
                   message_indices, encrypted_data, start_offset, decrypted_data,
                   restored, messages, quality>>

\* extract_messages: f.seek(start_pos)
Seek ==
    /\ stage = "extract_messages"
    /\ pos' = seek(File, text_start_pos)
    /\ stage' = "extract_messages:read"
    /\ UNCHANGED <<data, pc, exc, locals, started_at, max_count, values,
                   text_start_pos, message_indices, encrypted_data, start_offset,
                   decrypted_data, restored, messages, quality>>

\* extract_messages after the seek: read, decrypt, score, segment, choose
ExtractMessages ==
    /\ stage = "extract_messages:read"
    /\ LET r == read_all(File)
           decrypted == decrypt_text(r.bytes, 0)
       IN  /\ pos' = r.pos
           /\ encrypted_data' = r.bytes
           /\ decrypted_data' = decrypted
           /\ quality' = decryption_quality(decrypted)
           /\ messages' = choose_messages(fixed_stride_messages(decrypted),
                                          continuous_messages(decrypted))
    /\ stage' = "done"
    /\ UNCHANGED <<data, pc, exc, locals, started_at, max_count, values,
                   text_start_pos, message_indices, start_offset, restored>>

Next ==
    \/ ReadInt16
    \/ PrintVersion
    \/ PrintParams
    \/ ReadMultipleInts
    \/ ReadPartialInts
    \/ ReadFlags
    \/ Return
    \/ Seek
    \/ ExtractMessages

Spec == Init /\ [][Next]_vars

----------------------------------------------------------------------------
(* decrypt_text called on its own, then again on its own output.           *)

CodecBytes == {0, 65, 170, 255}

Idle ==
    /\ pc = 1
    /\ exc = ""
    /\ locals = [v \in LocalNames |-> None]
    /\ started_at = <<0>>
    /\ values = EmptyDict
    /\ text_start_pos = 0
    /\ message_indices = <<>>
    /\ encrypted_data = <<>>
    /\ decrypted_data = <<>>
    /\ restored = <<>>
    /\ messages = <<>>
    /\ quality = Zero

CodecInit ==
    /\ data \in SeqsUpTo(CodecBytes, MaxCodecLen)
    /\ start_offset \in 0..MaxCounter
    /\ pos = 0
    /\ stage = "decrypt_text"
    /\ max_count = 0
    /\ Idle

\* decrypted_data = decrypt_text(data, start_offset)
Decrypt ==
    /\ stage = "decrypt_text"
    /\ decrypted_data' = decrypt_text(data, start_offset)
    /\ stage' = "decrypt_text:again"
    /\ UNCHANGED <<data, pos, pc, exc, locals, started_at, max_count, values,
                   text_start_pos, message_indices, encrypted_data, start_offset,
                   restored, messages, quality>>

\* restored = decrypt_text(decrypted_data, start_offset)
DecryptAgain ==
    /\ stage = "decrypt_text:again"
    /\ restored' = decrypt_text(decrypted_data, start_offset)
    /\ stage' = "done"
    /\ UNCHANGED <<data, pos, pc, exc, locals, started_at, max_count, values,
                   text_start_pos, message_indices, encrypted_data, start_offset,
                   decrypted_data, messages, quality>>

CodecNext == Decrypt \/ DecryptAgain

CodecSpec == CodecInit /\ [][CodecNext]_vars

----------------------------------------------------------------------------
(* extract_messages(f, 0, []) called on a stream that holds only text.     *)

\* one byte of each class the segmenter tells apart
TextBytes == {0, 1, 9, 65, 127, 200}
LongBytes == {0, 65}

Texts == SeqsUpTo(TextBytes, MaxShort) \cup SeqsUpTo(LongBytes, MaxLong)

SegmentInit ==
    /\ data \in {decrypt_text(t, 0) : t \in Texts}
    /\ pos = 0
    /\ stage = "extract_messages"
    /\ max_count = 0
    /\ start_offset = 0
    /\ Idle

SegmentNext == Seek \/ ExtractMessages

SegmentSpec == SegmentInit /\ [][SegmentNext]_vars

----------------------------------------------------------------------------
(* read_partial_ints(f, max_count) called on its own.                      *)

SparseBytes == {0, 255}

\* {0: 5, 3: -2} in the one-byte-index and in the 16-bit-index encoding,
\* each followed by a byte that is not part of the map
SparseExamples ==
    { <<0, 0, 5, 3, 255, 254, 255, 7>>,
      <<0, 0, 0, 5, 0, 3, 255, 254, 255, 255, 7>> }

\* every cut of the examples, the byte after the sentinel included
SparseExampleStreams ==
    UNION {{SubSeq(w, 1, cut) : cut \in 0..Len(w)} : w \in SparseExamples}

\* the counts of the examples, and the two counts at which the encoding changes
SparseCalls ==
    (SparseExampleStreams \X {10, 300})
    \cup (SeqsUpTo(SparseBytes, MaxStream) \X {254, 255})

SparseInit ==
    /\ \E call \in SparseCalls : data = call[1] /\ max_count = call[2]
    /\ pos = 0
    /\ stage = "read_partial_ints"
    /\ start_offset = 0
    /\ Idle

\* one pass of the while loop; a break returns values
PartialPass ==
    /\ stage = "read_partial_ints"
    /\ LET r == read_partial_ints_iter(File, max_count, values)
       IN  /\ pos' = r.pos
           /\ values' = r.values
           /\ stage' = IF r.brk THEN "done" ELSE stage
    /\ UNCHANGED <<data, pc, exc, locals, started_at, max_count, text_start_pos,
                   message_indices, encrypted_data, start_offset, decrypted_data,
                   restored, messages, quality>>

SparseNext == PartialPass

\* the loop is straight-line code: while it can take a pass, it takes it
SparseSpec == SparseInit /\ [][SparseNext]_vars /\ WF_vars(SparseNext)

----------------------------------------------------------------------------
(* Properties of the pipeline (Spec).                                      *)

NoCounts == [s \in 1..8 |-> 0]

\* the header and eight empty sections, then the encrypted "HELLO\0WORLD\0"
HelloFile == CompleteFile(NoCounts)

\* the file cut right after vmaj, vmin, vedit
VersionHeaderOnly == SubSeq(HelloFile, 1, 6)

\* skip_metadata has returned
Walked == stage \in {"extract_messages", "extract_messages:read", "done"}

\* C1: on the file of eight empty sections whose text region is the encrypted
\* "HELLO\0WORLD\0", the pipeline returns ["HELLO", "WORLD"] and quality 1.0.
C1_HelloWorldRecovered ==
    (stage = "done" /\ data = HelloFile)
        => (messages = <<Hello, World>> /\ quality = One)

\* C2: on a well-formed file cut off at any byte position skip_metadata never
\* raises and returns the offset the cursor reached; on the file cut right after
\* the version header the pipeline returns no message and quality 0.
C2_TruncatedWalkNeverRaises ==
    /\ exc = ""
    /\ stage # "failed"
    /\ Walked => text_start_pos = started_at[Len(started_at)]
    /\ (stage = "done" /\ data = VersionHeaderOnly)
           => (messages = <<>> /\ quality = Zero)

SectionStatements(s) ==
    {i \in 1..Len(Program) : Program[i].sec = s /\ Program[i].op # "return"}

SectionStart(s) ==
    CHOOSE i \in SectionStatements(s) : \A j \in SectionStatements(s) : i <= j

SectionEnd(s) ==
    CHOOSE i \in SectionStatements(s) : \A j \in SectionStatements(s) : j <= i

\* the big-endian signed 16-bit integer at offset p of the file
Int16At(p) == unpack_h(SubSeq(data, p + 1, p + 2))

\* the bytes statement i consumed
Consumed(i) == started_at[i + 1] - started_at[i]

\* statement i has run to its end
Finished(i) == i < Len(started_at)

\* Section s, as far as it has been walked, is `lead` bytes, then its 16-bit
\* count C, then its fields, each of length C: a dense array 2*C bytes, a flag
\* array C bytes, a sparse map some 3-byte entries up to and including the first
\* terminator byte 255.
SectionLaidOut(s, lead) ==
    LET first == SectionStart(s)
        C == Int16At(started_at[first] + lead)
    IN  \A i \in SectionStatements(s) :
            Finished(i) =>
                CASE Program[i].op = "int" ->
                         /\ Consumed(i) = 2
                         /\ started_at[i] <= started_at[first] + lead
                  [] Program[i].op \in {"multi", "indices"} -> Consumed(i) = 2 * C
                  [] Program[i].op = "flags" -> Consumed(i) = C
                  [] Program[i].op = "partial" ->
                         /\ Consumed(i) >= 1
                         /\ (Consumed(i) - 1) % 3 = 0
                         /\ data[started_at[i + 1]] = 255
                         /\ \A k \in 0..((Consumed(i) - 1) \div 3 - 1) :
                                data[started_at[i] + 3 * k + 1] # 255

\* the walk of a complete file does not raise; it reads the six header integers,
\* then the sections one after the other in the order rooms (1) ..
\* message-index (8), and returns the offset at which the last one ends
SectionsInOrder ==
    /\ stage # "failed"
    /\ \A i \in 1..(SectionStart(1) - 1) :
           (Finished(i) /\ Program[i].op = "int") => Consumed(i) = 2
    /\ Finished(SectionStart(1) - 1) => started_at[SectionStart(1)] = 12
    /\ \A s \in 1..7 : SectionStart(s + 1) = SectionEnd(s) + 1
    /\ SectionEnd(8) + 1 = Len(Program)
    /\ Walked => /\ Len(started_at) = Len(Program)
                 /\ text_start_pos = started_at[Len(Program)]

\* C8 as stated: every section, the message-index section too, is one count C
\* and then its fields, so that the text starts 2 + 2*C bytes past the start of
\* the message-index section.
C8_EverySectionStartsWithItsCount ==
    data \in CompleteFiles =>
        /\ SectionsInOrder
        /\ \A s \in 1..8 : SectionLaidOut(s, 0)
        /\ Walked => text_start_pos = started_at[SectionStart(8)] + 2
                                      + 2 * Int16At(started_at[SectionStart(8)])

\* C8, amended: after the six header integers the sections rooms .. adventurers
\* are each one count C and then the fields of length C; the message-index
\* section is one 16-bit integer (mbase), then its count C, then the dense array,
\* so that the text starts 4 + 2*C bytes past the start of that section.
C8_SectionsConsumedInOrder ==
    data \in CompleteFiles =>
        /\ SectionsInOrder
        /\ \A s \in 1..7 : SectionLaidOut(s, 0)
        /\ SectionLaidOut(8, 2)
        /\ Walked => text_start_pos = started_at[SectionStart(8)] + 4
                                      + 2 * Int16At(started_at[SectionStart(8)] + 2)

C8_Witness ==
    /\ stage = "done"
    /\ data \in CompleteFiles
    /\ locals["olnt"] = Some(1)
    /\ locals["mlnt"] = Some(1)
    /\ text_start_pos = Len(data) - Len(HelloWorld)

\* C10: during one run the cursor stays within 0..len(data) and never moves
\* back; a read that leaves it in place returned None or nothing; the seek of
\* extract_messages goes to where the walk stopped; and the text that is
\* decrypted is exactly what the walk left unread.
C10_CursorOnlyAdvances ==
    [][ /\ 0 <= pos' /\ pos' <= Len(data)
        /\ pos <= pos'
        /\ (ReadInt16 /\ pos' = pos) => locals'[Program[pc].var] = None
        /\ (ReadPartialInts /\ pos' = pos /\ exc' = "") => pc' = pc + 1
        /\ (ExtractMessages /\ pos' = pos) => encrypted_data' = <<>>
        /\ Seek => pos' = started_at[Len(started_at)]
        /\ stage' = "done" =>
               encrypted_data' = SubSeq(data, started_at[Len(started_at)] + 1,
                                        Len(data)) ]_vars

C10_Witness ==
    /\ stage = "done"
    /\ 0 < text_start_pos
    /\ text_start_pos < pos
    /\ pos = Len(data)
    /\ encrypted_data # <<>>

----------------------------------------------------------------------------
(* Properties of decrypt_text (CodecSpec).                                 *)

\* C3: decrypting twice with the same start counter gives the input back.
C3_SelfInverse == stage = "done" => restored = data

C3_Witness ==
    /\ stage = "done"
    /\ Len(data) = MaxCodecLen
    /\ start_offset = 255
    /\ decrypted_data # data
    /\ restored = data

\* the ASCII codes of "IanLanceTaylorJr"
IanLanceTaylorJr ==
    <<73, 97, 110, 76, 97, 110, 99, 101, 84, 97, 121, 108, 111, 114, 74, 114>>

\* C4: the output is as long as the input, its byte at 0-based index i is
\* input[i] XOR key[(c+i) mod 16] XOR ((c+i) mod 256), every output byte is in
\* 0..255, and the input is left as it was.
C4_ByteFormula ==
    [][ /\ data' = data
        /\ stage' # "decrypt_text" =>
               /\ Len(decrypted_data') = Len(data)
               /\ \A i \in 0..(Len(data) - 1) :
                      /\ decrypted_data'[i + 1] =
                             xor(xor(data[i + 1],
                                     IanLanceTaylorJr[((start_offset + i) % 16) + 1]),
                                 (start_offset + i) % 256)
                      /\ decrypted_data'[i + 1] \in 0..255 ]_vars

C4_Witness ==
    /\ stage = "decrypt_text:again"
    /\ Len(data) = MaxCodecLen
    /\ start_offset = 255
    /\ decrypted_data[1] # decrypted_data[MaxCodecLen]
    /\ data[1] = data[MaxCodecLen]

----------------------------------------------------------------------------
(* Properties of extract_messages (SegmentSpec).                           *)

AllowedSet == {0, 9, 10, 13} \cup 32..126

AllAllowed == \A i \in 1..Len(decrypted_data) : decrypted_data[i] \in AllowedSet
NoneAllowed == \A i \in 1..Len(decrypted_data) : decrypted_data[i] \notin AllowedSet

\* C5 as stated: the quality ratio is 0 iff the decrypted bytes are empty, and
\* is 1 iff every byte is in the allowed set.
C5_QualityZeroIffEmpty ==
    stage = "done" =>
        /\ quality = Zero <=> decrypted_data = <<>>
        /\ quality = One <=> AllAllowed

\* C5, amended: the quality ratio is 0 iff no decrypted byte is in the allowed
\* set (so also when there is none), and is 1 iff there is at least one byte
\* and every byte is in the allowed set.
C5_QualityExtremes ==
    stage = "done" =>
        /\ quality = Zero <=> NoneAllowed
        /\ quality = One <=> (decrypted_data # <<>> /\ AllAllowed)

C5_Witness ==
    /\ stage = "done"
    /\ decrypted_data # <<>>
    /\ NoneAllowed
    /\ quality = Zero

\* C6: the result is the continuous-run list when that list is strictly longer
\* than the fixed-stride list and the fixed-stride list otherwise, a tie
\* included; it is always one of the two lists as a whole.
C6_LongerListWins ==
    stage = "done" =>
        LET fixed == fixed_stride_messages(decrypted_data)
            continuous == continuous_messages(decrypted_data)
        IN  /\ Len(continuous) > Len(fixed) => messages = continuous
            /\ Len(continuous) <= Len(fixed) => messages = fixed
            /\ messages \in {fixed, continuous}
            /\ messages = continuous =>
                   (Len(continuous) > Len(fixed) \/ continuous = fixed)

C6_Witness ==
    /\ stage = "done"
    /\ Len(fixed_stride_messages(decrypted_data)) = 1
    /\ Len(continuous_messages(decrypted_data)) = 2
    /\ messages = continuous_messages(decrypted_data)

C6_TieWitness ==
    /\ stage = "done"
    /\ Len(fixed_stride_messages(decrypted_data)) = 2
    /\ Len(continuous_messages(decrypted_data)) = 2
    /\ messages # continuous_messages(decrypted_data)

\* a byte the continuous-run strategy appends to the run
RunByte(b) == b \in {9, 10, 13} \cup 32..126

\* the runs i..j of run bytes that cannot be extended to the left, are longer
\* than 2 and are followed by a byte that is not a run byte
TerminatedRuns(d) ==
    {r \in (1..Len(d)) \X (1..Len(d)) :
        /\ r[1] <= r[2]
        /\ \A k \in r[1]..r[2] : RunByte(d[k])
        /\ (r[1] = 1 \/ ~RunByte(d[r[1] - 1]))
        /\ r[2] < Len(d)
        /\ ~RunByte(d[r[2] + 1])
        /\ r[2] - r[1] + 1 > 2}

RECURSIVE InInputOrder(_, _)
InInputOrder(d, runs) ==
    IF runs = {} THEN <<>>
    ELSE LET r == CHOOSE r \in runs : \A q \in runs : r[1] <= q[1]
         IN  <<SubSeq(d, r[1], r[2])>> \o InInputOrder(d, runs \ {r})

\* C9: the continuous-run strategy yields exactly the maximal runs of bytes in
\* {9, 10, 13} and 32..126 that are longer than 2 and are followed by a
\* terminating byte, in input order; the 0.7 gate rejects none of them; a run
\* that reaches the end of the input is not among them.
C9_ContinuousRuns ==
    stage = "done" =>
        LET d == decrypted_data
            continuous == continuous_messages(d)
        IN  /\ continuous = InInputOrder(d, TerminatedRuns(d))
            /\ \A r \in TerminatedRuns(d) :
                   passes_threshold(decode_ascii(SubSeq(d, r[1], r[2])))
            /\ Len(continuous) > Len(fixed_stride_messages(d))
                   => messages = InInputOrder(d, TerminatedRuns(d))

C9_Witness ==
    /\ stage = "done"
    /\ Len(decrypted_data) = 8
    /\ TerminatedRuns(decrypted_data) = {<<2, 4>>}
    /\ \A k \in 6..8 : RunByte(decrypted_data[k])
    /\ messages = <<SubSeq(decrypted_data, 2, 4)>>

----------------------------------------------------------------------------
(* Properties of read_partial_ints (SparseSpec).                           *)

IndexSize == IF max_count < 255 THEN 1 ELSE 2
EntrySize == IndexSize + 2
Sentinel == IF max_count < 255 THEN 255 ELSE -1

\* the index field at offset p, read as the declared count prescribes
IndexAt(p) == IF max_count < 255 THEN data[p + 1] ELSE Int16At(p)
ValueAt(p) == Int16At(p + IndexSize)

\* the stream holds k whole entries and then the sentinel
EntriesThenSentinel(k) ==
    /\ k * EntrySize + IndexSize <= Len(data)
    /\ \A j \in 0..(k - 1) : IndexAt(j * EntrySize) # Sentinel
    /\ IndexAt(k * EntrySize) = Sentinel

\* the value of the last of the first k entries whose index is x
LastValue(k, x) ==
    LET last == CHOOSE j \in 0..(k - 1) :
                    /\ IndexAt(j * EntrySize) = x
                    /\ \A m \in (j + 1)..(k - 1) : IndexAt(m * EntrySize) # x
    IN  ValueAt(last * EntrySize)

\* C7: with a count below 255 an entry is a 1-byte index and a 16-bit value and
\* the index byte 255 ends the map, otherwise an entry is a 16-bit index and a
\* 16-bit value and the index -1 ends it; after k entries and the sentinel the
\* cursor is 3k+1, or 4k+2, bytes on, right after the sentinel; the last value
\* read for an index is the one kept; and the read ends on every stream.
C7_SparseRead ==
    /\ [](stage = "done" =>
            /\ pos <= Len(data)
            /\ \A k \in 0..Len(data) :
                   EntriesThenSentinel(k) =>
                       /\ pos = IF max_count < 255 THEN 3 * k + 1 ELSE 4 * k + 2
                       /\ DOMAIN values = {IndexAt(j * EntrySize) : j \in 0..(k - 1)}
                       /\ \A x \in DOMAIN values : values[x] = LastValue(k, x))
    /\ <>(stage = "done")

C7_Witness ==
    /\ stage = "done"
    /\ max_count >= 255
    /\ pos = 10
    /\ EntriesThenSentinel(2)
    /\ IndexAt(0) = IndexAt(4)
    /\ ValueAt(0) # ValueAt(4)
    /\ values[IndexAt(0)] = ValueAt(4)

====
